---------------------------- MODULE Spec2Model ----------------------------
(***************************************************************************)
(* A model of the DataVAULT page component (src/app/page.tsx): the React   *)
(* state of ObjectVault, its event handlers, its effects (load/save to     *)
(* localStorage) and the two asynchronous gateway calls.                   *)
(*                                                                         *)
(* Encoding of JavaScript values                                           *)
(*   string            a sequence of one-character strings                 *)
(*   number | null     <<n>> for the number n, <<>> for null               *)
(*   object            a function from its keys to values; a key that is   *)
(*                     not in the DOMAIN reads as undefined                *)
(*   null (object)     the record Null                                     *)
(*   NaN / Invalid Date  <<>> where a number <<n>> is expected             *)
(***************************************************************************)
EXTENDS Integers, Sequences, FiniteSets, TLC

(***************************************************************************)
(* Bounds of the model.                                                    *)
(***************************************************************************)
MaxItems == 2
MaxClock == 1
MaxEvents == 6

(***************************************************************************)
(* Strings.                                                                *)
(***************************************************************************)
Digits == {"0", "1", "2", "3", "4", "5", "6", "7", "8", "9"}

DigitVal(c) ==
  CASE c = "0" -> 0 [] c = "1" -> 1 [] c = "2" -> 2 [] c = "3" -> 3
    [] c = "4" -> 4 [] c = "5" -> 5 [] c = "6" -> 6 [] c = "7" -> 7
    [] c = "8" -> 8 [] c = "9" -> 9

Range(s) == {s[i] : i \in DOMAIN s}

\* s.replace(/[^\d]/g, '') and s.replace(/\D/g, '')
OnlyDigits(s) == SelectSeq(s, LAMBDA c : c \in Digits)

\* s.slice(a, b) on a string, 0-based, end exclusive, clamped to the length
Slice(s, a, b) ==
  LET e == IF b < Len(s) THEN b ELSE Len(s)
  IN IF a >= e THEN <<>> ELSE SubSeq(s, a + 1, e)

\* the value of a string of decimal digits
RECURSIVE DigitsValue(_)
DigitsValue(s) ==
  IF s = <<>> THEN 0
  ELSE 10 * DigitsValue(SubSeq(s, 1, Len(s) - 1)) + DigitVal(s[Len(s)])

\* the longest prefix of s made of digits
RECURSIVE DigitPrefix(_)
DigitPrefix(s) ==
  IF s = <<>> \/ s[1] \notin Digits THEN <<>>
  ELSE <<s[1]>> \o DigitPrefix(Tail(s))

\* s.trim(): leading and trailing blanks removed
RECURSIVE TrimLeft(_)
TrimLeft(s) == IF s # <<>> /\ s[1] = " " THEN TrimLeft(Tail(s)) ELSE s

RECURSIVE TrimRight(_)
TrimRight(s) ==
  IF s # <<>> /\ s[Len(s)] = " " THEN TrimRight(SubSeq(s, 1, Len(s) - 1)) ELSE s

Trim(s) == TrimRight(TrimLeft(s))

\* parseInt(s, 10): blanks skipped, an optional sign, then the digit prefix;
\* NaN (<<>>) when there is no digit
ParseInt(s) ==
  LET t    == TrimLeft(s)
      neg  == t # <<>> /\ t[1] = "-"
      body == IF t # <<>> /\ t[1] \in {"-", "+"} THEN Tail(t) ELSE t
      ds   == DigitPrefix(body)
  IN IF ds = <<>> THEN <<>>
     ELSE IF neg THEN <<0 - DigitsValue(ds)>> ELSE <<DigitsValue(ds)>>

\* s.split(sep): the pieces of s between occurrences of the character sep
RECURSIVE Split(_, _)
Split(s, sep) ==
  IF \A i \in DOMAIN s : s[i] # sep THEN <<s>>
  ELSE LET k == CHOOSE i \in DOMAIN s :
                  s[i] = sep /\ \A j \in 1..(i - 1) : s[j] # sep
       IN <<SubSeq(s, 1, k - 1)>> \o Split(SubSeq(s, k + 1, Len(s)), sep)

\* parts.reverse()
Reverse(parts) == [i \in 1..Len(parts) |-> parts[Len(parts) + 1 - i]]

\* parts.join(sep)
RECURSIVE Join(_, _)
Join(parts, sep) ==
  IF parts = <<>> THEN <<>>
  ELSE IF Len(parts) = 1 THEN parts[1]
  ELSE parts[1] \o <<sep>> \o Join(Tail(parts), sep)


(***************************************************************************)
(* Dates.  A Date is <<d>>, d the number of whole days since 1970-01-01    *)
(* of its UTC midnight, or <<>> for an Invalid Date.                       *)
(***************************************************************************)
\* the calendar date of "now" (new Date()), as <<year, month, day>>
Today == <<2026, 11, 2>>

\* days from 1970-01-01 to the civil date y-m-d
DaysFromCivil(y, m, d) ==
  LET yy  == IF m <= 2 THEN y - 1 ELSE y
      era == yy \div 400
      yoe == yy - era * 400
      mp  == IF m > 2 THEN m - 3 ELSE m + 9
      doy == (153 * mp + 2) \div 5 + d - 1
      doe == yoe * 365 + yoe \div 4 - yoe \div 100 + doy
  IN era * 146097 + doe - 719468

NowDay == DaysFromCivil(Today[1], Today[2], Today[3])

\* new Date(s) for a text of three digit fields joined by "-".  The form
\* "YYYY-MM-DD" is the one the language defines; what is made of unpadded
\* fields ("2024-6-15") or of a day past the end of its month is left to
\* the engine, which either reads it as that calendar day, rolling over,
\* or gives Invalid Date.  It is read as the calendar day here, so a text
\* that is an Invalid Date here is one on every engine; validateForm treats
\* a past date and an Invalid Date alike.  A month outside 1..12, a day
\* outside 1..31 and every other shape is an Invalid Date.
NewDate(s) ==
  LET fields == Split(s, "-")
  IN IF /\ Len(fields) = 3
        /\ \A i \in 1..3 : fields[i] # <<>> /\ OnlyDigits(fields[i]) = fields[i]
        /\ Len(fields[1]) = 4 /\ Len(fields[2]) <= 2 /\ Len(fields[3]) <= 2
     THEN LET y == DigitsValue(fields[1])
              m == DigitsValue(fields[2])
              d == DigitsValue(fields[3])
          IN IF m \in 1..12 /\ d \in 1..31
             THEN <<DaysFromCivil(y, m, 1) + d - 1>>
             ELSE <<>>
     ELSE <<>>

\* new Date(purchaseDate.split('/').reverse().join('-'))
PurchaseDateOf(purchaseDate) == NewDate(Join(Reverse(Split(purchaseDate, "/")), "-"))

\* date > new Date(): a comparison with an Invalid Date (NaN) is false; the
\* date is a UTC midnight, so it is later than now iff its day is a later day
DateAfterNow(date) == date # <<>> /\ date[1] > NowDay

(***************************************************************************)
(* JavaScript values.                                                      *)
(***************************************************************************)
Null == [null |-> TRUE]

\* obj.key is undefined
Undefined(obj, key) == key \notin DOMAIN obj

\* !obj.key for a string-valued key: undefined or ''
FalsyStr(obj, key) == Undefined(obj, key) \/ obj[key] = <<>>

\* truthiness of a number: null, undefined and 0 are falsy
TruthyNum(obj, key) ==
  ~Undefined(obj, key) /\ obj[key] # <<>> /\ obj[key] # <<0>>

\* Number(v) for v a number or null
ToNumber(v) == IF v = <<>> THEN <<0>> ELSE v

\* e.target.value of a type="number" input read with Number(): '' is 0
NumberOfInput(text) == IF text = <<>> THEN <<0>> ELSE ParseInt(text)

\* {...obj}: spreading null gives {}
Spread(obj) == IF obj = Null THEN <<>> ELSE obj

\* {...obj, key: value}
With(obj, key, value) ==
  [k \in DOMAIN Spread(obj) \cup {key} |-> IF k = key THEN value ELSE obj[k]]

(***************************************************************************)
(* validateForm (shared by addItem and updateItem): the set of the keys    *)
(* flagged true in the returned FormErrors.                                *)
(***************************************************************************)
validateForm(item) ==
  LET currentYear == Today[1]
      yearNum == ParseInt(item["year"])
  IN  (IF FalsyStr(item, "name") THEN {"name"} ELSE {})
      \cup (IF FalsyStr(item, "category") THEN {"category"} ELSE {})
      \cup (IF FalsyStr(item, "year") THEN {"year"}
            ELSE IF yearNum = <<>> \/ yearNum[1] < 1800 \/ yearNum[1] > currentYear
                 THEN {"year"} ELSE {})
      \cup (IF Undefined(item, "purchasePrice") \/ item["purchasePrice"] = <<>>
            THEN {"purchasePrice"} ELSE {})
      \cup (IF FalsyStr(item, "purchaseDate") THEN {"purchaseDate"}
            ELSE IF DateAfterNow(PurchaseDateOf(item["purchaseDate"]))
                 THEN {"purchaseDate"} ELSE {})
      \cup (IF Undefined(item, "currentValue") \/ item["currentValue"] = <<>>
            THEN {"currentValue"} ELSE {})

(***************************************************************************)
(* Inputs: the texts the user types and the answers of the gateway.        *)
(***************************************************************************)
PlaceholderImage ==
  <<"/", "i", "m", "a", "g", "e", "s", "/", "p", "l", "a", "c", "e", "h",
    "o", "l", "d", "e", "r", ".", "p", "n", "g">>

Arte == <<"A", "r", "t", "e">>
Libri == <<"L", "i", "b", "r", "i">>

\* the keys of the add and edit forms
FormKeys ==
  {"name", "category", "year", "purchasePrice", "purchaseDate", "currentValue", "image"}

\* e.target.value of the form inputs, by key
FormTexts(key) ==
  CASE key = "name"          -> {<<"W">>}
    [] key = "category"      -> {Arte, Libri}
    [] key = "year"          -> {<<"2", "0", "2", "4">>}
    [] key = "purchasePrice" -> {<<>>, <<"-", "1">>}
    [] key = "purchaseDate"  -> {<<"0", "1", "0", "1", "2", "0", "2", "0">>,
                                 <<"9", "9", "9", "9", "2", "0", "2", "0">>}
    [] key = "currentValue"  -> {<<"0">>}
    [] key = "image"         -> {PlaceholderImage}

\* e.target.value of the sale-price and current-value inputs
SaleTexts == {<<>>}
ValueTexts == {<<"1">>}

\* the value "all" of the sale and category filters
All == <<"a", "l", "l">>

\* e.target.value of the search box
SearchTexts == {<<>>, <<"w">>, <<"A", "R", "T">>}

\* the options of the sale filter and of the sort key.  The sort key
\* 'percentage' compares the toFixed(1) texts of quotients, which may be
\* Infinity or NaN; it is not among the inputs of the model.
FilterByValues == {"all", "sold", "unsold"}
SortByValues == {"createdAt", "profit", "date"}

\* the category generateRandomItem draws: one other than that of the
\* stored item
RandomCategories == {Libri}

\* the answers of the gateway to a price request: the request fails, or
\* message.content is a text
PriceAnswers ==
  {[ok |-> FALSE, content |-> <<>>],
   [ok |-> TRUE, content |-> <<"1">>],
   [ok |-> TRUE, content |-> <<"n", "o">>],
   [ok |-> TRUE, content |-> <<"{", "\"", "p", "r", "e", "z", "z", "o", "\"", ":", "1", "}">>],
   [ok |-> TRUE, content |-> <<"{", "1", "}">>]}

\* a value of a decoded JSON object: a string or a number
JStr(chars) == [type |-> "string", str |-> chars, num |-> 0]
JNum(n) == [type |-> "number", str |-> <<>>, num |-> n]

\* the answers of the gateway to a fields request: the request fails, the
\* content holds no JSON object, or it holds the object `object`
GoodFields ==
  [category |-> JStr(Libri), year |-> JStr(<<"2", "0", "2", "4">>),
   purchasePrice |-> JNum(50),
   purchaseDate |-> JStr(<<"0", "1", ".", "0", "1", ".", "2", "0", "2", "0">>),
   currentValue |-> JNum(50), image |-> JStr(PlaceholderImage)]

FieldsAnswers ==
  {[kind |-> "unreachable", object |-> <<>>],
   [kind |-> "text", object |-> <<>>],
   [kind |-> "json", object |-> GoodFields],
   [kind |-> "json", object |-> [GoodFields EXCEPT !["image"] = JStr(<<>>)]],
   [kind |-> "json", object |-> [GoodFields EXCEPT !["year"] = JNum(2024)]]}

(***************************************************************************)
(* The state of ObjectVault and of its environment.                        *)
(***************************************************************************)
VARIABLES
  items,          \* useState<VintageItem[]>
  newItem,        \* the buffer of the add form
  isAddingItem,   \* the add dialog is open
  editingItem,    \* the buffer of the edit dialog, or Null
  sellingItem,    \* {id, price} of the sell dialog, or Null
  updatingValue,  \* {id, currentValue} of the revalue dialog, or Null
  isLoading,      \* a gateway request is loading
  error,          \* the error notice, "null" when there is none
  categories,     \* useState<string[]>
  agent1Status,   \* 'idle' | 'loading' | 'complete'
  formErrors,     \* the keys flagged true in FormErrors
  toast,          \* the title of the last toast shown
  localStorage,   \* the slot 'vintageItems' of the key/value store
  now,            \* Date.now(), in milliseconds since the page was opened
  inflight,       \* the gateway requests awaiting their answer
  phase,          \* startup: which effects have run; "ready"; "crashed"
  queued,         \* state updates set by the load effect, not yet rendered
  searchTerm,     \* the text of the search box
  sortBy,         \* 'createdAt' | 'profit' | 'date' | 'percentage'
  sortOrder,      \* 'asc' | 'desc'
  filterBy,       \* 'all' | 'sold' | 'unsold'
  filterCategory, \* 'all' or a category
  events          \* the number of user events handled so far

vars ==
  <<items, newItem, isAddingItem, editingItem, sellingItem, updatingValue,
    isLoading, error, categories, agent1Status, formErrors, toast,
    localStorage, now, inflight, phase, queued, searchTerm, sortBy,
    sortOrder, filterBy, filterCategory, events>>

uiVars ==
  <<newItem, isAddingItem, editingItem, sellingItem, updatingValue, formErrors>>
gatewayVars == <<isLoading, error, agent1Status, inflight>>
startVars == <<phase, queued>>
queryVars == <<searchTerm, sortBy, sortOrder, filterBy, filterCategory>>

\* a click or a keystroke is handled: the model follows the page for
\* MaxEvents of them
UserEvent == events < MaxEvents /\ events' = events + 1

\* the initial value of newItem, and the value addItem resets it to
EmptyNewItem ==
  [name |-> <<>>, category |-> <<>>, year |-> <<>>, purchasePrice |-> <<0>>,
   purchaseDate |-> <<>>, currentValue |-> <<0>>, image |-> PlaceholderImage]

(***************************************************************************)
(* Persistence.                                                            *)
(***************************************************************************)
\* JSON.stringify(items): every item with the keys whose value is defined
JSONStringify(its) ==
  [i \in 1..Len(its) |-> [k \in {x \in DOMAIN its[i] : ~Undefined(its[i], x)} |-> its[i][k]]]

\* SaveEffect with a stale closure: the items of the render before are written
SaveEffectStale(its) == localStorage' = [kind |-> "json", value |-> JSONStringify(items)]

\* the save effect: localStorage.setItem('vintageItems', JSON.stringify(items))
SaveEffect(its) == localStorage' = [kind |-> "json", value |-> JSONStringify(its)]

\* setItems(its) followed by the render it causes and the save effect of it
SetItems(its) == items' = its /\ SaveEffect(its)

\* Array.from(new Set(list)): the distinct values, in order of first occurrence
RECURSIVE Distinct(_)
Distinct(list) ==
  IF list = <<>> THEN <<>>
  ELSE LET init == Distinct(SubSeq(list, 1, Len(list) - 1))
           last == list[Len(list)]
       IN IF last \in Range(init) THEN init ELSE Append(init, last)

\* updateCategories(its)
updateCategories(its) ==
  categories' = Distinct([i \in 1..Len(its) |-> its[i]["category"]])

\* an item saved by an earlier session
StoredItem ==
  [id |-> 0 - 1, name |-> <<"W">>, category |-> Arte,
   year |-> <<"2", "0", "2", "4">>, purchasePrice |-> <<0>>,
   purchaseDate |-> <<"0", "1", "/", "0", "1", "/", "2", "0", "2", "0">>,
   currentValue |-> <<0>>, image |-> PlaceholderImage, createdAt |-> 0 - 1]

\* what the slot may hold when the page is opened
InitialStorage ==
  {[kind |-> "absent"], [kind |-> "garbage"],
   [kind |-> "json", value |-> <<>>],
   [kind |-> "json", value |-> <<StoredItem>>]}

Init ==
  /\ items = <<>>
  /\ newItem = EmptyNewItem
  /\ isAddingItem = FALSE
  /\ editingItem = Null
  /\ sellingItem = Null
  /\ updatingValue = Null
  /\ isLoading = FALSE
  /\ error = "null"
  /\ categories = <<>>
  /\ agent1Status = "idle"
  /\ formErrors = {}
  /\ toast = "none"
  /\ localStorage \in InitialStorage
  /\ now = 0
  /\ inflight = <<>>
  /\ phase = "mount1"
  /\ queued = <<>>
  /\ searchTerm = <<>>
  /\ sortBy = "createdAt"
  /\ sortOrder = "desc"
  /\ filterBy = "all"
  /\ filterCategory = All
  /\ events = 0

(***************************************************************************)
(* Startup: the load effect and the save effect of the first render.       *)
(***************************************************************************)
\* useEffect(() => { ...getItem...; setItems(loadedItems); updateCategories }, [])
LoadEffect ==
  /\ phase \in {"mount1", "mount2"}
  /\ IF localStorage.kind = "garbage"
     THEN \* JSON.parse throws inside the effect
          /\ phase' = "crashed"
          /\ UNCHANGED queued
     ELSE /\ queued' = Append(queued,
                IF localStorage.kind = "json" THEN localStorage.value ELSE <<>>)
          /\ phase' = IF phase = "mount1" THEN "loaded1" ELSE "loaded2"
  /\ UNCHANGED <<items, categories, toast, localStorage, now>>
  /\ UNCHANGED uiVars
  /\ UNCHANGED gatewayVars
  /\ UNCHANGED queryVars
  /\ UNCHANGED events

\* useEffect(() => { localStorage.setItem(...items...) }, [items]) on mount:
\* items is still the initial [].  Under React StrictMode (development
\* builds) the effects of the mount then run a second time.
MountSaveEffect ==
  /\ phase \in {"loaded1", "loaded2"}
  /\ SaveEffect(items)
  /\ \/ phase' = "flush"
     \/ phase = "loaded1" /\ phase' = "mount2"
  /\ UNCHANGED <<items, categories, toast, now, queued>>
  /\ UNCHANGED uiVars
  /\ UNCHANGED gatewayVars
  /\ UNCHANGED queryVars
  /\ UNCHANGED events

\* the render of the queued setItems/setCategories (the last one wins) and
\* the save effect that follows it
Flush ==
  /\ phase = "flush"
  /\ SetItems(queued[Len(queued)])
  /\ updateCategories(queued[Len(queued)])
  /\ queued' = <<>>
  /\ phase' = "ready"
  /\ UNCHANGED <<toast, now>>
  /\ UNCHANGED uiVars
  /\ UNCHANGED gatewayVars
  /\ UNCHANGED queryVars
  /\ UNCHANGED events

\* time passes
Tick ==
  /\ now < MaxClock
  /\ now' = now + 1
  /\ UNCHANGED <<items, categories, toast, localStorage>>
  /\ UNCHANGED uiVars
  /\ UNCHANGED gatewayVars
  /\ UNCHANGED startVars
  /\ UNCHANGED queryVars
  /\ UNCHANGED events

\* the page behind an open dialog does not take clicks (modal dialogs)
PageInteractive ==
  /\ phase = "ready"
  /\ ~isAddingItem
  /\ editingItem = Null
  /\ sellingItem = Null
  /\ updatingValue = Null

(***************************************************************************)
(* The item store: add, add-random, delete, update, sell, revalue.         *)
(***************************************************************************)
\* String(n) for a natural number n
RECURSIVE ToStr(_)
ToStr(n) ==
  LET d == CHOOSE c \in Digits : DigitVal(c) = n % 10
  IN IF n < 10 THEN <<d>> ELSE ToStr(n \div 10) \o <<d>>

\* new Date().toLocaleDateString('it-IT'): d/m/yyyy, not padded
LocaleDateNow == ToStr(Today[3]) \o <<"/">> \o ToStr(Today[2]) \o <<"/">> \o ToStr(Today[1])

\* prevItems.map(item => item.id === obj.id ? mapped : item), where
\* mapped[i] is what the arrow function gives for the i-th item
MapMatching(its, obj, mapped) ==
  [i \in 1..Len(its) |->
     IF ~Undefined(obj, "id") /\ its[i]["id"] = obj["id"] THEN mapped[i] ELSE its[i]]

\* addItem: the Salva button of the add dialog.  Its two Date.now() calls
\* read the same millisecond.
addItem ==
  /\ phase = "ready"
  /\ isAddingItem
  /\ LET errors == validateForm(newItem)
     IN IF errors = {}
        THEN /\ Len(items) < MaxItems
             /\ LET newItemWithId ==
                      [k \in DOMAIN newItem \cup {"id", "createdAt"} |->
                         CASE k = "id" -> now
                           [] k = "createdAt" -> now
                           [] k = "purchasePrice" -> ToNumber(newItem["purchasePrice"])
                           [] k = "currentValue" -> ToNumber(newItem["currentValue"])
                           [] OTHER -> newItem[k]]
                    updatedItems == <<newItemWithId>> \o items
                IN /\ SetItems(updatedItems)
                   /\ updateCategories(updatedItems)
             /\ newItem' = EmptyNewItem
             /\ isAddingItem' = FALSE
             /\ toast' = "Articolo aggiunto"
             /\ UNCHANGED formErrors
        ELSE /\ formErrors' = errors
             /\ UNCHANGED <<items, localStorage, categories, newItem, isAddingItem,
                            toast>>
  /\ UNCHANGED <<editingItem, sellingItem, updatingValue, now>>
  /\ UNCHANGED gatewayVars
  /\ UNCHANGED startVars
  /\ UNCHANGED queryVars
  /\ UserEvent

\* generateRandomItem, its random draws taken from small sets
generateRandomItem(category) ==
  [id |-> now, name |-> <<"A", "r", "t", "i", "c", "o", "l", "o", " ", "7">>,
   category |-> category, year |-> <<"2", "0", "2", "4">>,
   purchasePrice |-> <<50>>,
   purchaseDate |-> <<"1", "5", "/", "6", "/", "2", "0", "2", "4">>,
   currentValue |-> <<50>>, image |-> PlaceholderImage,
   createdAt |-> now]

\* the Articolo Casuale button
addRandomItem ==
  /\ PageInteractive
  /\ Len(items) < MaxItems
  /\ \E category \in RandomCategories :
       LET updatedItems == <<generateRandomItem(category)>> \o items
       IN /\ SetItems(updatedItems)
          /\ updateCategories(updatedItems)
  /\ toast' = "Articolo casuale aggiunto"
  /\ UNCHANGED now
  /\ UNCHANGED uiVars
  /\ UNCHANGED gatewayVars
  /\ UNCHANGED startVars
  /\ UNCHANGED queryVars
  /\ UserEvent

\* the Elimina button of the card of item
deleteItem(item) ==
  /\ PageInteractive
  /\ SetItems(SelectSeq(items, LAMBDA i : i["id"] # item["id"]))
  /\ toast' = "Articolo eliminato"
  /\ UNCHANGED <<categories, now>>
  /\ UNCHANGED uiVars
  /\ UNCHANGED gatewayVars
  /\ UNCHANGED startVars
  /\ UNCHANGED queryVars
  /\ UserEvent

\* updateItem closing the dialog before it validates
updateItemClosesFirst ==
  /\ phase = "ready"
  /\ editingItem # Null
  /\ editingItem' = Null
  /\ LET errors == validateForm(editingItem)
     IN IF errors = {}
        THEN LET updatedItems == MapMatching(items, editingItem, [i \in 1..Len(items) |-> editingItem])
             IN /\ SetItems(updatedItems)
                /\ updateCategories(updatedItems)
                /\ toast' = "Articolo aggiornato"
                /\ UNCHANGED formErrors
        ELSE /\ formErrors' = errors
             /\ UNCHANGED <<items, localStorage, categories, toast>>
  /\ UNCHANGED <<newItem, isAddingItem, sellingItem, updatingValue, now>>
  /\ UNCHANGED gatewayVars
  /\ UNCHANGED startVars
  /\ UNCHANGED queryVars
  /\ UserEvent

\* updateItem moving the updated item to the head of the list
updateItemToFront ==
  /\ phase = "ready"
  /\ editingItem # Null
  /\ LET errors == validateForm(editingItem)
     IN IF errors = {}
        THEN LET updatedItems ==
                   <<editingItem>> \o
                   SelectSeq(items, LAMBDA i : Undefined(editingItem, "id")
                                                \/ i["id"] # editingItem["id"])
             IN /\ SetItems(updatedItems)
                /\ updateCategories(updatedItems)
                /\ editingItem' = Null
                /\ toast' = "Articolo aggiornato"
                /\ UNCHANGED formErrors
        ELSE /\ formErrors' = errors
             /\ UNCHANGED <<items, localStorage, categories, editingItem, toast>>
  /\ UNCHANGED <<newItem, isAddingItem, sellingItem, updatingValue, now>>
  /\ UNCHANGED gatewayVars
  /\ UNCHANGED startVars
  /\ UNCHANGED queryVars
  /\ UserEvent

\* updateItem(editingItem): the Salva Modifiche button of the edit dialog
updateItem ==
  /\ phase = "ready"
  /\ editingItem # Null
  /\ LET errors == validateForm(editingItem)
     IN IF errors = {}
        THEN LET updatedItems == MapMatching(items, editingItem, [i \in 1..Len(items) |-> editingItem])
             IN /\ SetItems(updatedItems)
                /\ updateCategories(updatedItems)
                /\ editingItem' = Null
                /\ toast' = "Articolo aggiornato"
                /\ UNCHANGED formErrors
        ELSE /\ formErrors' = errors
             /\ UNCHANGED <<items, localStorage, categories, editingItem, toast>>
  /\ UNCHANGED <<newItem, isAddingItem, sellingItem, updatingValue, now>>
  /\ UNCHANGED gatewayVars
  /\ UNCHANGED startVars
  /\ UNCHANGED queryVars
  /\ UserEvent

\* sellItem(sellingItem.id, sellingItem.price): the Conferma Vendita button
sellItem ==
  /\ phase = "ready"
  /\ sellingItem # Null
  /\ SetItems(MapMatching(items, sellingItem,
        [i \in 1..Len(items) |->
           With(With(items[i], "salePrice", sellingItem["price"]),
                "saleDate", LocaleDateNow)]))
  /\ sellingItem' = Null
  /\ toast' = "Articolo venduto"
  /\ UNCHANGED <<newItem, isAddingItem, editingItem, updatingValue, formErrors>>
  /\ UNCHANGED <<categories, now>>
  /\ UNCHANGED gatewayVars
  /\ UNCHANGED startVars
  /\ UNCHANGED queryVars
  /\ UserEvent

\* updateItemValue(updatingValue.id, updatingValue.currentValue): the
\* Aggiorna Valore button
updateItemValue ==
  /\ phase = "ready"
  /\ updatingValue # Null
  /\ SetItems(MapMatching(items, updatingValue,
        [i \in 1..Len(items) |->
           With(items[i], "currentValue", updatingValue["currentValue"])]))
  /\ updatingValue' = Null
  /\ toast' = "Valore aggiornato"
  /\ UNCHANGED <<newItem, isAddingItem, editingItem, sellingItem, formErrors>>
  /\ UNCHANGED <<categories, now>>
  /\ UNCHANGED gatewayVars
  /\ UNCHANGED startVars
  /\ UNCHANGED queryVars
  /\ UserEvent

(***************************************************************************)
(* Dialogs and their inputs.                                               *)
(***************************************************************************)
\* the Aggiungi Nuovo Articolo button
openAddDialog ==
  /\ PageInteractive
  /\ isAddingItem' = TRUE
  /\ UNCHANGED <<newItem, editingItem, sellingItem, updatingValue, formErrors>>
  /\ UNCHANGED <<items, categories, toast, localStorage, now>>
  /\ UNCHANGED gatewayVars
  /\ UNCHANGED startVars
  /\ UNCHANGED queryVars
  /\ UserEvent

\* onOpenChange(false) of the add dialog
closeAddDialog ==
  /\ phase = "ready"
  /\ isAddingItem
  /\ isAddingItem' = FALSE
  /\ UNCHANGED <<newItem, editingItem, sellingItem, updatingValue, formErrors>>
  /\ UNCHANGED <<items, categories, toast, localStorage, now>>
  /\ UNCHANGED gatewayVars
  /\ UNCHANGED startVars
  /\ UNCHANGED queryVars
  /\ UserEvent

\* the Modifica button of the card of item, rendered when !item.salePrice
openEditDialog(item) ==
  /\ PageInteractive
  /\ ~TruthyNum(item, "salePrice")
  /\ editingItem' = item
  /\ UNCHANGED <<newItem, isAddingItem, sellingItem, updatingValue, formErrors>>
  /\ UNCHANGED <<items, categories, toast, localStorage, now>>
  /\ UNCHANGED gatewayVars
  /\ UNCHANGED startVars
  /\ UNCHANGED queryVars
  /\ UserEvent

\* onOpenChange of the edit dialog
closeEditDialog ==
  /\ phase = "ready"
  /\ editingItem # Null
  /\ editingItem' = Null
  /\ UNCHANGED <<newItem, isAddingItem, sellingItem, updatingValue, formErrors>>
  /\ UNCHANGED <<items, categories, toast, localStorage, now>>
  /\ UNCHANGED gatewayVars
  /\ UNCHANGED startVars
  /\ UNCHANGED queryVars
  /\ UserEvent

\* the Vendi button of the card of item, rendered when !item.salePrice
openSellDialog(item) ==
  /\ PageInteractive
  /\ ~TruthyNum(item, "salePrice")
  /\ sellingItem' = [id |-> item["id"], price |-> item["currentValue"]]
  /\ UNCHANGED <<newItem, isAddingItem, editingItem, updatingValue, formErrors>>
  /\ UNCHANGED <<items, categories, toast, localStorage, now>>
  /\ UNCHANGED gatewayVars
  /\ UNCHANGED startVars
  /\ UNCHANGED queryVars
  /\ UserEvent

\* onOpenChange of the sell dialog
closeSellDialog ==
  /\ phase = "ready"
  /\ sellingItem # Null
  /\ sellingItem' = Null
  /\ UNCHANGED <<newItem, isAddingItem, editingItem, updatingValue, formErrors>>
  /\ UNCHANGED <<items, categories, toast, localStorage, now>>
  /\ UNCHANGED gatewayVars
  /\ UNCHANGED startVars
  /\ UNCHANGED queryVars
  /\ UserEvent

\* the refresh button of the card of item, rendered when !item.salePrice
openRevalueDialog(item) ==
  /\ PageInteractive
  /\ ~TruthyNum(item, "salePrice")
  /\ updatingValue' = [id |-> item["id"], currentValue |-> item["currentValue"]]
  /\ UNCHANGED <<newItem, isAddingItem, editingItem, sellingItem, formErrors>>
  /\ UNCHANGED <<items, categories, toast, localStorage, now>>
  /\ UNCHANGED gatewayVars
  /\ UNCHANGED startVars
  /\ UNCHANGED queryVars
  /\ UserEvent

\* onOpenChange(false) of the revalue dialog
closeRevalueDialog ==
  /\ phase = "ready"
  /\ updatingValue # Null
  /\ updatingValue' = Null
  /\ agent1Status' = "idle"
  /\ UNCHANGED <<newItem, isAddingItem, editingItem, sellingItem, formErrors>>
  /\ UNCHANGED <<items, categories, toast, localStorage, now>>
  /\ UNCHANGED <<isLoading, error, inflight>>
  /\ UNCHANGED startVars
  /\ UNCHANGED queryVars
  /\ UserEvent

\* handleDateChange: the digits of the text, with '/' after the 2nd and 4th
handleDateChange(text) ==
  LET v0 == OnlyDigits(text)
      v1 == IF Len(v0) > 2 THEN Slice(v0, 0, 2) \o <<"/">> \o Slice(v0, 2, Len(v0)) ELSE v0
  IN IF Len(v1) > 5 THEN Slice(v1, 0, 5) \o <<"/">> \o Slice(v1, 5, 9) ELSE v1

\* the value onChange stores for the input of key
FormValue(key, text) ==
  IF key = "purchaseDate" THEN handleDateChange(text)
  ELSE IF key \in {"purchasePrice", "currentValue"}
       THEN (IF text = <<>> THEN <<>> ELSE NumberOfInput(text))
       ELSE text

\* onChange of an input of the add dialog
changeNewItem(key, text) ==
  /\ phase = "ready"
  /\ isAddingItem
  /\ newItem' = With(newItem, key, FormValue(key, text))
  /\ formErrors' = formErrors \ {key}
  /\ UNCHANGED <<isAddingItem, editingItem, sellingItem, updatingValue>>
  /\ UNCHANGED <<items, categories, toast, localStorage, now>>
  /\ UNCHANGED gatewayVars
  /\ UNCHANGED startVars
  /\ UNCHANGED queryVars
  /\ UserEvent

\* onChange of an input of the edit dialog
changeEditingItem(key, text) ==
  /\ phase = "ready"
  /\ editingItem # Null
  /\ editingItem' = With(editingItem, key, FormValue(key, text))
  /\ formErrors' = formErrors \ {key}
  /\ UNCHANGED <<newItem, isAddingItem, sellingItem, updatingValue>>
  /\ UNCHANGED <<items, categories, toast, localStorage, now>>
  /\ UNCHANGED gatewayVars
  /\ UNCHANGED startVars
  /\ UNCHANGED queryVars
  /\ UserEvent

\* onChange of the sale-price input
changeSalePrice(text) ==
  /\ phase = "ready"
  /\ sellingItem # Null
  /\ sellingItem' = With(sellingItem, "price", NumberOfInput(text))
  /\ UNCHANGED <<newItem, isAddingItem, editingItem, updatingValue, formErrors>>
  /\ UNCHANGED <<items, categories, toast, localStorage, now>>
  /\ UNCHANGED gatewayVars
  /\ UNCHANGED startVars
  /\ UNCHANGED queryVars
  /\ UserEvent

\* onChange of the current-value input
changeCurrentValue(text) ==
  /\ phase = "ready"
  /\ updatingValue # Null
  /\ updatingValue' = With(updatingValue, "currentValue", NumberOfInput(text))
  /\ UNCHANGED <<newItem, isAddingItem, editingItem, sellingItem, formErrors>>
  /\ UNCHANGED <<items, categories, toast, localStorage, now>>
  /\ UNCHANGED gatewayVars
  /\ UNCHANGED startVars
  /\ UNCHANGED queryVars
  /\ UserEvent

(***************************************************************************)
(* The gateway: suggestPrice (findSuggestedPrice) and suggestFields        *)
(* (handleAICompletion).  A request is started by one handler and answered *)
(* later; user events may fall in between.                                 *)
(***************************************************************************)
StartsWith(s, c) == s # <<>> /\ s[1] = c
EndsWith(s, c) == s # <<>> /\ s[Len(s)] = c

\* JSON.parse of a text of the shape {"key":digits}: the object read, or a
\* SyntaxError.  The answers of the model in braces are of this shape or
\* are no JSON at all.
JSONParseObject(text) ==
  LET n == Len(text)
      quotes == {i \in 3..n : text[i] = "\""}
      q == IF quotes = {} THEN 0 ELSE CHOOSE i \in quotes : \A j \in quotes : i <= j
      digits == IF q = 0 THEN <<>> ELSE SubSeq(text, q + 2, n - 1)
  IN IF /\ n >= 6 /\ text[1] = "{" /\ text[2] = "\"" /\ q > 3 /\ q + 2 <= n - 1
        /\ text[q + 1] = ":" /\ text[n] = "}"
        /\ \A i \in 1..Len(digits) : digits[i] \in Digits
     THEN [ok |-> TRUE, key |-> SubSeq(text, 3, q - 1), value |-> DigitsValue(digits)]
     ELSE [ok |-> FALSE, key |-> <<>>, value |-> 0]

ParseErrorNotice == "Errore nel parsing del prezzo. Riprova piu tardi."
PriceErrorNotice ==
  "Si e verificato un errore durante il recupero del prezzo suggerito. Riprova piu tardi."

\* the catch block of findSuggestedPrice handing back 0
PriceFailureZero(item, complete) ==
  [returned |-> <<0>>, error |-> PriceErrorNotice,
   toasted |-> TRUE, complete |-> complete]

\* what the catch block of findSuggestedPrice leaves
PriceFailure(item, complete) ==
  [returned |-> item["currentValue"], error |-> PriceErrorNotice,
   toasted |-> TRUE, complete |-> complete]

\* findSuggestedPrice(item) from the answer on: the value returned, the
\* error notice set ("keep" when none is set), whether the error toast is
\* shown and whether agent1Status was set to 'complete'
findSuggestedPrice(item, answer) ==
  IF ~answer.ok THEN PriceFailure(item, FALSE)
  ELSE
    LET agentResponse == Trim(answer.content)
        braces == StartsWith(agentResponse, "{") /\ EndsWith(agentResponse, "}")
        parsed == JSONParseObject(agentResponse)
        \* extractedPrice as parseInt reads it: a string of digits
        \* (a number n is read through String(n))
        extracted ==
          IF braces
          THEN (IF parsed.key = <<"p", "r", "e", "z", "z", "o">>
                THEN ToStr(parsed.value)
                ELSE <<"u", "n", "d", "e", "f", "i", "n", "e", "d">>)
          ELSE OnlyDigits(agentResponse)
        finalPrice == ParseInt(extracted)
    IN IF braces /\ ~parsed.ok
       THEN [returned |-> item["currentValue"], error |-> ParseErrorNotice,
             toasted |-> FALSE, complete |-> TRUE]
       ELSE IF finalPrice = <<>> THEN PriceFailure(item, TRUE)
       ELSE [returned |-> finalPrice, error |-> "keep", toasted |-> FALSE,
             complete |-> TRUE]

\* startPriceRequest with a Trova Prezzo button that is never disabled
startPriceRequestNotDisabled ==
  /\ phase = "ready"
  /\ updatingValue # Null
  /\ LET found == {i \in 1..Len(items) : items[i]["id"] = updatingValue["id"]}
     IN IF found # {}
        THEN LET item == items[CHOOSE i \in found : \A j \in found : i <= j]
             IN /\ isLoading' = TRUE
                /\ error' = "null"
                /\ agent1Status' = "loading"
                /\ inflight' = Append(inflight,
                     [kind |-> "price", item |-> item, buffer |-> updatingValue])
        ELSE UNCHANGED gatewayVars
  /\ UNCHANGED uiVars
  /\ UNCHANGED <<items, categories, toast, localStorage, now>>
  /\ UNCHANGED startVars
  /\ UNCHANGED queryVars
  /\ UserEvent

\* the Trova Prezzo button: items.find(...), then findSuggestedPrice up to
\* its await; the click handler keeps the updatingValue it was rendered with
startPriceRequest ==
  /\ phase = "ready"
  /\ updatingValue # Null
  /\ ~isLoading
  /\ LET found == {i \in 1..Len(items) : items[i]["id"] = updatingValue["id"]}
     IN IF found # {}
        THEN LET item == items[CHOOSE i \in found : \A j \in found : i <= j]
             IN /\ isLoading' = TRUE
                /\ error' = "null"
                /\ agent1Status' = "loading"
                /\ inflight' = Append(inflight,
                     [kind |-> "price", item |-> item, buffer |-> updatingValue])
        ELSE UNCHANGED gatewayVars
  /\ UNCHANGED uiVars
  /\ UNCHANGED <<items, categories, toast, localStorage, now>>
  /\ UNCHANGED startVars
  /\ UNCHANGED queryVars
  /\ UserEvent

RemoveAt(seq, i) == SubSeq(seq, 1, i - 1) \o SubSeq(seq, i + 1, Len(seq))

\* priceResponse writing the suggested price into the store as well
priceResponseToStore(i, answer) ==
  /\ phase = "ready"
  /\ i \in 1..Len(inflight)
  /\ inflight[i].kind = "price"
  /\ LET req == inflight[i]
         res == findSuggestedPrice(req.item, answer)
     IN /\ agent1Status' = IF res.complete THEN "complete" ELSE agent1Status
        /\ error' = IF res.error = "keep" THEN error ELSE res.error
        /\ toast' = IF res.toasted THEN "Errore" ELSE toast
        /\ updatingValue' = With(req.buffer, "currentValue", res.returned)
        /\ SetItems(MapMatching(items, req.buffer,
              [j \in 1..Len(items) |-> With(items[j], "currentValue", res.returned)]))
  /\ isLoading' = FALSE
  /\ inflight' = RemoveAt(inflight, i)
  /\ UNCHANGED <<newItem, isAddingItem, editingItem, sellingItem, formErrors>>
  /\ UNCHANGED <<categories, now>>
  /\ UNCHANGED startVars
  /\ UNCHANGED queryVars
  /\ UNCHANGED events

\* the answer to a price request: the rest of findSuggestedPrice, then
\* setUpdatingValue({ ...updatingValue, currentValue: suggestedPrice })
priceResponse(i, answer) ==
  /\ phase = "ready"
  /\ i \in 1..Len(inflight)
  /\ inflight[i].kind = "price"
  /\ LET req == inflight[i]
         res == findSuggestedPrice(req.item, answer)
     IN /\ agent1Status' = IF res.complete THEN "complete" ELSE agent1Status
        /\ error' = IF res.error = "keep" THEN error ELSE res.error
        /\ toast' = IF res.toasted THEN "Errore" ELSE toast
        /\ updatingValue' = With(req.buffer, "currentValue", res.returned)
  /\ isLoading' = FALSE
  /\ inflight' = RemoveAt(inflight, i)
  /\ UNCHANGED <<newItem, isAddingItem, editingItem, sellingItem, formErrors>>
  /\ UNCHANGED <<items, categories, localStorage, now>>
  /\ UNCHANGED startVars
  /\ UNCHANGED queryVars
  /\ UNCHANGED events

\* formatDate: dd/mm/yyyy when the text holds exactly 8 digits, else the text
formatDate(input) ==
  LET cleaned == OnlyDigits(input)
  IN IF Len(cleaned) = 8
     THEN Slice(cleaned, 0, 2) \o <<"/">> \o Slice(cleaned, 2, 4) \o <<"/">> \o Slice(cleaned, 4, 8)
     ELSE input

SuggestedKeys ==
  {"category", "year", "purchasePrice", "purchaseDate", "currentValue", "image"}

\* parseJSONContent from the decoded object on: the typeof checks; the
\* SuggestedFields, or a SyntaxError
parseJSONContent(answer) ==
  IF /\ answer.kind = "json"
     /\ DOMAIN answer.object = SuggestedKeys
     /\ \A k \in {"category", "year", "purchaseDate", "image"} :
          answer.object[k].type = "string"
     /\ \A k \in {"purchasePrice", "currentValue"} : answer.object[k].type = "number"
  THEN [ok |-> TRUE,
        fields |-> [k \in SuggestedKeys |->
                      IF answer.object[k].type = "string" THEN answer.object[k].str
                      ELSE <<answer.object[k].num>>]]
  ELSE [ok |-> FALSE, fields |-> <<>>]

\* the updater handleAICompletion passes to the setter throws: prev is null
\* and a suggested string is '', so that prev.key is read
MergeThrows(prev, suggestedFields) ==
  /\ prev = Null
  /\ \E k \in {"category", "year", "purchaseDate", "image"} : suggestedFields[k] = <<>>

\* the updater handleAICompletion passes to the setter
MergeSuggested(prev, suggestedFields) ==
  LET value(k) ==
        IF k \in {"purchasePrice", "currentValue"} THEN suggestedFields[k]
        ELSE IF k = "purchaseDate" /\ suggestedFields[k] # <<>>
             THEN formatDate(suggestedFields[k])
        ELSE IF suggestedFields[k] # <<>> THEN suggestedFields[k]
        ELSE prev[k]
      \* a suggested '' over a prev without the key leaves the key undefined
      defined == {k \in SuggestedKeys :
                    ~(k \in {"category", "year", "purchaseDate", "image"}
                      /\ suggestedFields[k] = <<>> /\ Undefined(Spread(prev), k))}
  IN [k \in DOMAIN Spread(prev) \cup defined |->
        IF k \in defined THEN value(k) ELSE prev[k]]

FetchErrorNotice == "Impossibile ottenere i suggerimenti dal modello AI."
SyntaxErrorNotice == "Impossibile parsare la risposta del modello AI."

\* the Completamento AI button of the add dialog (setter: setNewItem) or of
\* the edit dialog (setter: setEditingItem): handleAICompletion to its await
startFieldsRequest(setter) ==
  /\ phase = "ready"
  /\ ~isLoading
  /\ \/ setter = "setNewItem" /\ isAddingItem /\ ~FalsyStr(newItem, "name")
     \/ setter = "setEditingItem" /\ editingItem # Null /\ ~FalsyStr(editingItem, "name")
  /\ LET itemName == IF setter = "setNewItem" THEN newItem["name"] ELSE editingItem["name"]
     IN IF Trim(itemName) = <<>>
        THEN /\ toast' = "Nome prodotto mancante"
             /\ UNCHANGED gatewayVars
        ELSE /\ isLoading' = TRUE
             /\ error' = "null"
             /\ inflight' = Append(inflight, [kind |-> "fields", setter |-> setter])
             /\ UNCHANGED <<toast, agent1Status>>
  /\ UNCHANGED uiVars
  /\ UNCHANGED <<items, categories, localStorage, now>>
  /\ UNCHANGED startVars
  /\ UNCHANGED queryVars
  /\ UserEvent

\* the answer to a fields request: the rest of handleAICompletion and the
\* render of the state it sets.  The updater runs in that render, on the
\* buffer as it is then; when it throws, the page is gone.
fieldsResponse(i, answer) ==
  /\ phase = "ready"
  /\ i \in 1..Len(inflight)
  /\ inflight[i].kind = "fields"
  /\ LET setter == inflight[i].setter
         parsed == parseJSONContent(answer)
         prev == IF setter = "setNewItem" THEN newItem ELSE editingItem
     IN IF parsed.ok
        THEN /\ toast' = "Completamento AI riuscito"
             /\ UNCHANGED error
             /\ IF MergeThrows(prev, parsed.fields)
                THEN /\ phase' = "crashed"
                     /\ UNCHANGED <<newItem, editingItem>>
                ELSE /\ phase' = phase
                     /\ IF setter = "setNewItem"
                        THEN /\ newItem' = MergeSuggested(prev, parsed.fields)
                             /\ UNCHANGED editingItem
                        ELSE /\ editingItem' = MergeSuggested(prev, parsed.fields)
                             /\ UNCHANGED newItem
        ELSE /\ error' = IF answer.kind = "unreachable" THEN FetchErrorNotice
                         ELSE SyntaxErrorNotice
             /\ toast' = "Errore"
             /\ UNCHANGED <<newItem, editingItem, phase>>
  /\ isLoading' = FALSE
  /\ inflight' = RemoveAt(inflight, i)
  /\ UNCHANGED <<isAddingItem, sellingItem, updatingValue, formErrors, agent1Status>>
  /\ UNCHANGED <<items, categories, localStorage, now, queued>>
  /\ UNCHANGED queryVars
  /\ UNCHANGED events

(***************************************************************************)
(* The page as a whole.                                                    *)
(***************************************************************************)
Next ==
  \/ LoadEffect
  \/ MountSaveEffect
  \/ Flush
  \/ Tick
  \/ addItem
  \/ addRandomItem
  \/ \E item \in Range(items) : deleteItem(item)
  \/ updateItem
  \/ sellItem
  \/ updateItemValue
  \/ openAddDialog
  \/ closeAddDialog
  \/ \E item \in Range(items) : openEditDialog(item)
  \/ closeEditDialog
  \/ \E item \in Range(items) : openSellDialog(item)
  \/ closeSellDialog
  \/ \E item \in Range(items) : openRevalueDialog(item)
  \/ closeRevalueDialog
  \/ \E key \in FormKeys : \E text \in FormTexts(key) : changeNewItem(key, text)
  \/ \E key \in FormKeys : \E text \in FormTexts(key) : changeEditingItem(key, text)
  \/ \E text \in SaleTexts : changeSalePrice(text)
  \/ \E text \in ValueTexts : changeCurrentValue(text)
  \/ startPriceRequest
  \/ \E i \in 1..Len(inflight) : \E answer \in PriceAnswers : priceResponse(i, answer)
  \/ \E setter \in {"setNewItem", "setEditingItem"} : startFieldsRequest(setter)
  \/ \E i \in 1..Len(inflight) : \E answer \in FieldsAnswers : fieldsResponse(i, answer)

Spec == Init /\ [][Next]_vars

(***************************************************************************)
(* How the page reads "sold".                                              *)
(***************************************************************************)
\* the sale filter of filteredAndSortedItems: item.salePrice !== undefined
SoldForFilter(item) == ~Undefined(item, "salePrice")

\* the card, calculateProfit and the statistics: item.salePrice is truthy
SoldForCard(item) == TruthyNum(item, "salePrice")

HasSalePrice(item) == ~Undefined(item, "salePrice")
HasSaleDate(item) == ~Undefined(item, "saleDate")

AddedToasts == {"Articolo aggiunto", "Articolo casuale aggiunto"}

(***************************************************************************)
(* Derived metrics.                                                        *)
(***************************************************************************)
\* the value of a number field in arithmetic: null counts as 0
NumVal(v) == IF v = <<>> THEN 0 ELSE v[1]

\* item.salePrice ? item.salePrice - item.purchasePrice
\*                : item.currentValue - item.purchasePrice
calculateProfit(item) ==
  IF TruthyNum(item, "salePrice")
  THEN NumVal(item["salePrice"]) - NumVal(item["purchasePrice"])
  ELSE NumVal(item["currentValue"]) - NumVal(item["purchasePrice"])

(***************************************************************************)
(* The query: search, filters and sort of filteredAndSortedItems.          *)
(***************************************************************************)
UpperCase ==
  <<"A", "B", "C", "D", "E", "F", "G", "H", "I", "J", "K", "L", "M",
    "N", "O", "P", "Q", "R", "S", "T", "U", "V", "W", "X", "Y", "Z">>
LowerCase ==
  <<"a", "b", "c", "d", "e", "f", "g", "h", "i", "j", "k", "l", "m",
    "n", "o", "p", "q", "r", "s", "t", "u", "v", "w", "x", "y", "z">>

\* s.toLowerCase()
ToLowerCase(s) ==
  [i \in 1..Len(s) |->
     IF \E k \in 1..Len(UpperCase) : UpperCase[k] = s[i]
     THEN LowerCase[CHOOSE k \in 1..Len(UpperCase) : UpperCase[k] = s[i]]
     ELSE s[i]]

\* s.includes(t)
Includes(s, t) ==
  \E i \in 1..(Len(s) + 1) :
    i + Len(t) - 1 <= Len(s) /\ SubSeq(s, i, i + Len(t) - 1) = t

\* the first filter: the search term in the name or in the category
SearchKeeps(item, term) ==
  \/ Includes(ToLowerCase(item["name"]), ToLowerCase(term))
  \/ Includes(ToLowerCase(item["category"]), ToLowerCase(term))

\* the second filter, with truthiness in the place of !== undefined
SaleKeepsTruthy(item, value) ==
  CASE value = "all" -> TRUE
    [] value = "sold" -> TruthyNum(item, "salePrice")
    [] value = "unsold" -> ~TruthyNum(item, "salePrice")
    [] OTHER -> TRUE

\* the second filter: filterBy
SaleKeeps(item, value) ==
  CASE value = "all" -> TRUE
    [] value = "sold" -> ~Undefined(item, "salePrice")
    [] value = "unsold" -> Undefined(item, "salePrice")
    [] OTHER -> TRUE

\* the third filter: filterCategory
CategoryKeeps(item, value) == value = All \/ item["category"] = value

\* new Date(...).getTime() of a purchase date, in days; <<>> is NaN
PurchaseTime(item) == PurchaseDateOf(item["purchaseDate"])

\* the comparator of the sort; a NaN result counts as 0 in the sort
Comparison(a, b, by, order) ==
  LET comparison ==
        CASE by = "profit" -> calculateProfit(b) - calculateProfit(a)
          [] by = "date" ->
               IF PurchaseTime(a) = <<>> \/ PurchaseTime(b) = <<>> THEN 0
               ELSE PurchaseTime(b)[1] - PurchaseTime(a)[1]
          [] by = "createdAt" -> b["createdAt"] - a["createdAt"]
          [] OTHER -> 0
  IN IF order = "asc" THEN comparison ELSE 0 - comparison

\* Array.prototype.sort is stable: x goes before the first element that
\* the comparator puts after it
RECURSIVE SortInsert(_, _, _, _)
SortInsert(sorted, x, by, order) ==
  IF sorted = <<>> THEN <<x>>
  ELSE IF Comparison(Head(sorted), x, by, order) > 0 THEN <<x>> \o sorted
  ELSE <<Head(sorted)>> \o SortInsert(Tail(sorted), x, by, order)

RECURSIVE Sort(_, _, _)
Sort(list, by, order) ==
  IF list = <<>> THEN <<>>
  ELSE SortInsert(Sort(SubSeq(list, 1, Len(list) - 1), by, order),
                  list[Len(list)], by, order)

\* the chain items.filter(...).filter(...).filter(...)
Filtered(its, term, sale, category) ==
  SelectSeq(its, LAMBDA item : /\ SearchKeeps(item, term)
                              /\ SaleKeeps(item, sale)
                              /\ CategoryKeeps(item, category))

\* one recomputation of the memo.  sort works in place, on the array the
\* filters returned: `output` is that array, `items` the collection after
\* the run
Recompute(its, term, sale, category, by, order) ==
  [items |-> its,
   output |-> Sort(Filtered(its, term, sale, category), by, order)]

\* what the page lists
filteredAndSortedItems ==
  Recompute(items, searchTerm, filterBy, filterCategory, sortBy, sortOrder).output

\* the counts of StatisticsCard
soldItems(list) == Len(SelectSeq(list, LAMBDA item : TruthyNum(item, "salePrice")))
unsoldItems(list) == Len(list) - soldItems(list)

(***************************************************************************)
(* The query over a stored collection.  No handler of the store reads or   *)
(* writes the query state and no query setter touches the store, so Spec   *)
(* follows the store with the query at its defaults and QuerySpec follows  *)
(* the query over collections the store can hold.                          *)
(***************************************************************************)
\* three items added at the milliseconds 1 < 2 < 3: one typed into the
\* form, one random item sold for 0, one random item sold for 80
Oldest ==
  [id |-> 1, name |-> <<"W">>, category |-> Arte,
   year |-> <<"2", "0", "2", "4">>, purchasePrice |-> <<10>>,
   purchaseDate |-> <<"0", "1", "/", "0", "1", "/", "2", "0", "2", "0">>,
   currentValue |-> <<30>>, image |-> PlaceholderImage, createdAt |-> 1]

Middle ==
  [id |-> 2, name |-> <<"A", "r", "t", "i", "c", "o", "l", "o", " ", "7">>,
   category |-> Libri, year |-> <<"2", "0", "2", "4">>,
   purchasePrice |-> <<50>>,
   purchaseDate |-> <<"1", "5", "/", "0", "6", "/", "2", "0", "2", "4">>,
   currentValue |-> <<60>>, image |-> PlaceholderImage, createdAt |-> 2,
   salePrice |-> <<0>>, saleDate |-> LocaleDateNow]

Newest ==
  [id |-> 3, name |-> <<"A", "r", "t", "i", "c", "o", "l", "o", " ", "8">>,
   category |-> Arte, year |-> <<"2", "0", "2", "4">>,
   purchasePrice |-> <<50>>,
   purchaseDate |-> <<"1", "0", "/", "1", "0", "/", "2", "0", "2", "2">>,
   currentValue |-> <<70>>, image |-> PlaceholderImage, createdAt |-> 3,
   salePrice |-> <<80>>, saleDate |-> LocaleDateNow]

\* the collections of these items: addItem prepends, so the newest is first
QueryCollections ==
  {SelectSeq(<<Newest, Middle, Oldest>>, LAMBDA item : item["id"] \in ids) :
     ids \in SUBSET {1, 2, 3}}

\* the page after startup, showing a stored collection
InitQuery ==
  /\ items \in QueryCollections
  /\ categories = Distinct([i \in 1..Len(items) |-> items[i]["category"]])
  /\ localStorage = [kind |-> "json", value |-> JSONStringify(items)]
  /\ phase = "ready"
  /\ newItem = EmptyNewItem
  /\ isAddingItem = FALSE
  /\ editingItem = Null
  /\ sellingItem = Null
  /\ updatingValue = Null
  /\ isLoading = FALSE
  /\ error = "null"
  /\ agent1Status = "idle"
  /\ formErrors = {}
  /\ toast = "none"
  /\ now = 0
  /\ inflight = <<>>
  /\ queued = <<>>
  /\ searchTerm = <<>>
  /\ sortBy = "createdAt"
  /\ sortOrder = "desc"
  /\ filterBy = "all"
  /\ filterCategory = All
  /\ events = 0

\* a query setter and the render it causes: the memo is recomputed with
\* the new value
QueryRender(term, sale, category, by, order) ==
  /\ PageInteractive
  /\ searchTerm' = term
  /\ filterBy' = sale
  /\ filterCategory' = category
  /\ sortBy' = by
  /\ sortOrder' = order
  /\ items' = Recompute(items, term, sale, category, by, order).items
  /\ UNCHANGED <<categories, toast, localStorage, now, events>>
  /\ UNCHANGED uiVars
  /\ UNCHANGED gatewayVars
  /\ UNCHANGED startVars

\* onChange of the search box
setSearchTerm(text) ==
  QueryRender(text, filterBy, filterCategory, sortBy, sortOrder)

\* onValueChange of the sale filter
setFilterBy(value) ==
  QueryRender(searchTerm, value, filterCategory, sortBy, sortOrder)

\* onValueChange of the category filter: "all" or one of categories
setFilterCategory(value) ==
  QueryRender(searchTerm, filterBy, value, sortBy, sortOrder)

\* onValueChange of the sort key
setSortBy(value) ==
  QueryRender(searchTerm, filterBy, filterCategory, value, sortOrder)

\* the button of the sort direction
toggleSortOrder ==
  QueryRender(searchTerm, filterBy, filterCategory, sortBy,
              IF sortOrder = "asc" THEN "desc" ELSE "asc")

NextQuery ==
  \/ \E text \in SearchTexts : setSearchTerm(text)
  \/ \E value \in FilterByValues : setFilterBy(value)
  \/ \E value \in {All} \cup Range(categories) : setFilterCategory(value)
  \/ \E value \in SortByValues : setSortBy(value)
  \/ toggleSortOrder

QuerySpec == InitQuery /\ [][NextQuery]_vars

(***************************************************************************)
(* Claims.                                                                 *)
(***************************************************************************)
\* C1: in every reachable state no two items of the collection have the
\* same id, also after two adds at the same clock millisecond.
C1_UniqueIds ==
  \A i, j \in 1..Len(items) : i # j => items[i]["id"] # items[j]["id"]

\* C2: once a mutation of the collection has been processed (the page is
\* past its startup), the persisted slot holds exactly the serialization of
\* the collection in memory.
C2_SlotHoldsItems ==
  phase = "ready" => localStorage = [kind |-> "json", value |-> JSONStringify(items)]

\* C2 witness: a sale of a stored item has been processed and persisted
C2_Witness ==
  /\ phase = "ready"
  /\ toast = "Articolo venduto"
  /\ \E i \in 1..Len(items) : HasSalePrice(items[i])
  /\ localStorage = [kind |-> "json", value |-> JSONStringify(items)]

\* C3: after every structural mutation (add, update, delete) the category
\* set is the set of the categories of the items in the collection; after
\* the last item of a category is deleted the category is gone.
C3_CategoriesOfItems ==
  phase = "ready" => Range(categories) = {items[i]["category"] : i \in 1..Len(items)}

\* C4: when validation fails, add and update change nothing but the
\* reported field names: the collection, the category set, the persisted
\* slot and the buffers stay as they are.
C4_FailedValidationChangesNothing ==
  [][ (\/ validateForm(newItem) # {} /\ addItem
       \/ editingItem # Null /\ validateForm(editingItem) # {} /\ updateItem)
      => /\ UNCHANGED <<items, categories, localStorage>>
         /\ UNCHANGED <<newItem, isAddingItem, editingItem, sellingItem, updatingValue>>
         /\ UNCHANGED <<toast, now, phase, queued>>
         /\ UNCHANGED gatewayVars
         /\ formErrors' # {} ]_vars

\* C4 witness: Salva Modifiche was pressed on an edit buffer whose purchase
\* price had been cleared; the field is flagged and the item is as it was
C4_Witness ==
  /\ editingItem # Null
  /\ ~Undefined(editingItem, "id")
  /\ editingItem["purchasePrice"] = <<>>
  /\ formErrors = {"purchasePrice"}
  /\ \E i \in 1..Len(items) :
       items[i]["id"] = editingItem["id"] /\ items[i]["purchasePrice"] # <<>>

\* C5: add followed by remove with the id given to the added item restores
\* the collection as it was before the add: the same items in the same
\* order.  (The toast of an add is the last toast exactly as long as no
\* other mutation followed the add; the added item is the head.)
C5_AddThenRemoveRestores ==
  [][ (toast \in AddedToasts /\ items # <<>> /\ deleteItem(items[1]))
      => items' = Tail(items) ]_vars

\* C6: every item has saleDate present iff salePrice is present, and is
\* treated as sold, by the sale filter and by the card alike, exactly when
\* salePrice is present.
C6_SoldIffSalePrice ==
  \A i \in 1..Len(items) :
    /\ HasSaleDate(items[i]) <=> HasSalePrice(items[i])
    /\ SoldForFilter(items[i]) <=> HasSalePrice(items[i])
    /\ SoldForCard(items[i]) <=> HasSalePrice(items[i])

\* C7: sell is one-way: an item that has a salePrice has one in every later
\* state in which it is still in the collection.  Items are followed by
\* their place: an add puts one item before the others, a removal leaves
\* the others as they are, every other step keeps each item in its place.
C7_SoldStaysSold ==
  [][ LET k == Len(items') - Len(items)
      IN IF k >= 0
         THEN \A i \in 1..Len(items) :
                HasSalePrice(items[i]) =>
                  /\ items'[i + k]["id"] = items[i]["id"]
                  /\ HasSalePrice(items'[i + k])
         ELSE \A j \in 1..Len(items') : items'[j] \in Range(items) ]_vars

\* C8: a successful update replaces the item with the matching id in
\* place: same length, same order of ids, every item with another id
\* unchanged, and no change at all when no item has the id.
C8_UpdateInPlace ==
  [][ (editingItem # Null /\ validateForm(editingItem) = {} /\ updateItem)
      => /\ Len(items') = Len(items)
         /\ \A i \in 1..Len(items) :
              IF ~Undefined(editingItem, "id") /\ items[i]["id"] = editingItem["id"]
              THEN items'[i] = editingItem
              ELSE items'[i] = items[i]
         /\ \A i \in 1..Len(items) : items'[i]["id"] = items[i]["id"] ]_vars

\* C8 witness: Salva Modifiche has replaced one of two items with different
\* ids and categories; both are in their places and the categories follow
C8_Witness ==
  /\ toast = "Articolo aggiornato"
  /\ Len(items) = 2
  /\ items[1]["id"] # items[2]["id"]
  /\ items[1]["category"] # items[2]["category"]
  /\ items[2]["category"] = Arte
  /\ categories = <<Libri, Arte>>

\* C9: starting a gateway request and receiving its answer, good or bad,
\* never changes the item collection or the persisted slot.
C9_GatewayLeavesStore ==
  [][ (\/ startPriceRequest
       \/ \E setter \in {"setNewItem", "setEditingItem"} : startFieldsRequest(setter)
       \/ \E i \in 1..Len(inflight) : \E answer \in PriceAnswers : priceResponse(i, answer)
       \/ \E i \in 1..Len(inflight) : \E answer \in FieldsAnswers : fieldsResponse(i, answer))
      => UNCHANGED <<items, localStorage>> ]_vars

\* C9 witness: a suggested price other than the stored value sits in the
\* buffer of the revalue dialog
C9_Witness ==
  /\ agent1Status = "complete"
  /\ inflight = <<>>
  /\ updatingValue # Null
  /\ updatingValue["currentValue"] = <<1>>
  /\ \E i \in 1..Len(items) :
       items[i]["id"] = updatingValue["id"] /\ items[i]["currentValue"] # <<1>>

\* C10: a gateway answer that arrives after its editing surface was closed
\* is discarded: it changes no edit buffer, does not reopen the dialog, and
\* puts nothing into a buffer opened afterwards for another item.
C10_LateResponseDiscarded ==
  [][ /\ \A i \in 1..Len(inflight) : \A answer \in PriceAnswers :
           (/\ priceResponse(i, answer)
            /\ IF updatingValue = Null THEN TRUE
               ELSE updatingValue["id"] # inflight[i].buffer["id"])
           => UNCHANGED updatingValue
      /\ \A i \in 1..Len(inflight) : \A answer \in FieldsAnswers :
           (/\ fieldsResponse(i, answer)
            /\ \/ inflight[i].setter = "setEditingItem" /\ editingItem = Null
               \/ inflight[i].setter = "setNewItem" /\ ~isAddingItem)
           => UNCHANGED <<newItem, editingItem>> ]_vars

\* C11: at most one gateway request is in flight at any time, and while one
\* is in flight the loading flag that disables the gateway buttons is set.
C11_OneRequestInFlight ==
  /\ Len(inflight) <= 1
  /\ inflight # <<>> => isLoading

\* C11 witness: a fields request started from the add dialog is still in
\* flight while the revalue dialog, with its Trova Prezzo button, is open
C11_Witness ==
  /\ Len(inflight) = 1
  /\ inflight[1].kind = "fields"
  /\ isLoading
  /\ updatingValue # Null
  /\ \E i \in 1..Len(items) : items[i]["id"] = updatingValue["id"]

\* C12: load never fails: when the slot is absent or holds malformed data
\* the load effect ends without an error and what it loads, the collection
\* the page then shows and takes its categories from, is empty.
C12_LoadNeverFails ==
  [][ (LoadEffect /\ localStorage.kind \in {"absent", "garbage"})
      => /\ phase' # "crashed"
         /\ queued'[Len(queued')] = <<>> ]_vars

\* C13: the profit of every item of the collection is its salePrice, when
\* it has one (0 included), else its currentValue, minus its purchasePrice.
C13_ProfitOfItem ==
  \A i \in 1..Len(items) :
    calculateProfit(items[i]) =
      (IF HasSalePrice(items[i]) THEN NumVal(items[i]["salePrice"])
       ELSE NumVal(items[i]["currentValue"])) - NumVal(items[i]["purchasePrice"])

\* C14: with the sort key createdAt, the direction descending and no
\* filter, three items added at times t1 < t2 < t3 are listed newest first:
\* [t3, t2, t1].
C14_NewestFirst ==
  (/\ Len(items) = 3
   /\ \A i, j \in 1..3 : i # j => items[i]["createdAt"] # items[j]["createdAt"]
   /\ sortBy = "createdAt" /\ sortOrder = "desc"
   /\ searchTerm = <<>> /\ filterBy = "all" /\ filterCategory = All)
  => /\ Len(filteredAndSortedItems) = 3
     /\ \A i \in 1..2 :
          filteredAndSortedItems[i]["createdAt"] > filteredAndSortedItems[i + 1]["createdAt"]

\* how often x occurs in list
Occurrences(list, x) == Cardinality({i \in 1..Len(list) : list[i] = x})

\* item matches the query: the lower-cased term occurs somewhere in its
\* lower-cased name or category, it is sold (has a salePrice) or unsold as
\* the sale filter asks, and its category is the one asked for
QueryMatches(item) ==
  LET term == ToLowerCase(searchTerm)
      OccursIn(text) ==
        \E from \in 0..Len(text) :
          /\ from + Len(term) <= Len(text)
          /\ \A k \in 1..Len(term) : ToLowerCase(text)[from + k] = term[k]
  IN /\ OccursIn(item["name"]) \/ OccursIn(item["category"])
     /\ filterBy = "sold" => HasSalePrice(item)
     /\ filterBy = "unsold" => ~HasSalePrice(item)
     /\ filterCategory # All => item["category"] = filterCategory

\* the list holds exactly the items of the collection that match, each as
\* often as the collection holds it
QueryExact ==
  \A x \in Range(items) \cup Range(filteredAndSortedItems) :
    Occurrences(filteredAndSortedItems, x) =
      IF QueryMatches(x) THEN Occurrences(items, x) ELSE 0

\* C15: for every collection and every search term, sale filter and
\* category filter the list holds exactly the matching items, each once,
\* and recomputing it leaves the collection as it was, content and order.
C15_QueryExactAndPure ==
  /\ []QueryExact
  /\ [][NextQuery => items' = items]_vars

\* C15 witness: in the collection of three items the search "ART" with
\* the sale filter 'sold' and the sort by profit lists two items, the one
\* sold for 80 and the one sold for 0 whose name holds "Art"; the unsold
\* item is left out and the collection is as it was
C15_Witness ==
  /\ Len(items) = 3
  /\ searchTerm = <<"A", "R", "T">>
  /\ filterBy = "sold"
  /\ sortBy = "profit"
  /\ Len(filteredAndSortedItems) = 2
  /\ items = <<Newest, Middle, Oldest>>

\* C16: the sold count of the statistics is the number of listed items
\* that have a salePrice and the unsold count is the rest; so with the sale
\* filter 'sold' the unsold count is 0 and with 'unsold' the sold count is 0.
C16_SoldAndUnsoldCounts ==
  LET list == filteredAndSortedItems
      withSalePrice == Cardinality({i \in 1..Len(list) : HasSalePrice(list[i])})
  IN /\ soldItems(list) = withSalePrice
     /\ unsoldItems(list) = Len(list) - withSalePrice
     /\ filterBy = "sold" => unsoldItems(list) = 0
     /\ filterBy = "unsold" => soldItems(list) = 0

\* C17: every item that add or update puts into the collection has a
\* purchaseDate that parses to a date, one not later than now.
C17_PurchaseDateNotLater ==
  [][ (addItem \/ updateItem)
      => \A i \in 1..Len(items') :
           items'[i] \notin Range(items)
           => /\ PurchaseDateOf(items'[i]["purchaseDate"]) # <<>>
              /\ ~DateAfterNow(PurchaseDateOf(items'[i]["purchaseDate"])) ]_vars

\* C18: in every reachable state every item of the collection has a
\* purchasePrice greater than or equal to 0.
C18_PurchasePriceNotNegative ==
  \A i \in 1..Len(items) : NumVal(items[i]["purchasePrice"]) >= 0

\* the request failed: the gateway was unreachable, the content holds no
\* digit, or the content is in braces and is not a JSON object
PriceRequestFailed(answer) ==
  \/ ~answer.ok
  \/ OnlyDigits(answer.content) = <<>>
  \/ /\ StartsWith(Trim(answer.content), "{")
     /\ EndsWith(Trim(answer.content), "}")
     /\ ~JSONParseObject(Trim(answer.content)).ok

\* C19: when a price request fails (gateway unreachable, or no valid
\* integer in the response) the value handed back to the caller is the
\* currentValue of the stored item the request was made for and an error
\* notice is recorded; when an integer is recovered, that integer is handed
\* back.  The caller puts the value handed back into the revalue buffer.
C19_PriceFallback ==
  [][ \A i \in 1..Len(inflight) : \A answer \in PriceAnswers :
        priceResponse(i, answer)
        => IF PriceRequestFailed(answer)
           THEN /\ updatingValue'["currentValue"] = inflight[i].item["currentValue"]
                /\ error' \in {ParseErrorNotice, PriceErrorNotice}
           ELSE updatingValue'["currentValue"] =
                  <<DigitsValue(OnlyDigits(answer.content))>> ]_vars

\* C19 witness: a price request for a random item, whose stored value is
\* 50, has failed: the notice is recorded, the error toast is shown and the
\* revalue buffer holds the stored value
C19_Witness ==
  /\ updatingValue # Null
  /\ inflight = <<>>
  /\ ~isLoading
  /\ error = PriceErrorNotice
  /\ toast = "Errore"
  /\ updatingValue["currentValue"] = <<50>>
  /\ \E i \in 1..Len(items) :
       /\ items[i]["id"] = updatingValue["id"]
       /\ items[i]["currentValue"] = <<50>>

\* C20: startup never overwrites stored data: while the page starts, up to
\* and including the render that brings the loaded collection into memory,
\* no step changes what a slot holding a collection holds, also when the
\* mount effects run twice.
C20_StartupKeepsSlot ==
  [][ (/\ phase \in {"mount1", "loaded1", "mount2", "loaded2", "flush"}
       /\ localStorage.kind = "json")
      => localStorage' = localStorage ]_vars

\* C21: every price request leaves the 'loading' status: once its answer
\* has been handled, whether a price, a parse failure or a network failure,
\* agent1Status is 'idle' or 'complete' and isLoading is false, without the
\* dialog having to be closed.
C21_RequestLeavesLoading ==
  [][ \A i \in 1..Len(inflight) : \A answer \in PriceAnswers :
        priceResponse(i, answer)
        => /\ agent1Status' \in {"idle", "complete"}
           /\ ~isLoading' ]_vars

=============================================================================
